---- MODULE Spec2Model ----
(***************************************************************************)
(* JWT authentication service: credential store (database.js), startup     *)
(* auto-seeding and the HTTP handlers (server.js), and the access gate     *)
(* (middleware/authMiddleware.js).                                         *)
(*                                                                         *)
(* Time is counted in days.  A stored row, a query result, a JSON body and *)
(* a token payload are functions from property names to values; a property *)
(* that is undefined in JavaScript is absent from the function's domain    *)
(* (JSON.stringify drops undefined members).                               *)
(***************************************************************************)
EXTENDS Integers, Sequences, FiniteSets, TLC

VARIABLES
    dbType,      \* Database.dbType: "postgres" or "sqlite"
    phase,       \* position of startServer
    tables,      \* names of the tables as recorded in the backend's catalog
    USERS,       \* rows of the USERS table
    nextId,      \* next value of the auto-increment primary key
    nextSalt,    \* number of salts bcrypt has drawn so far, plus one
    now,         \* wall clock, in days
    issued,      \* tokens returned by generateToken so far
    req,         \* the request being processed (or the last one processed)
    res,         \* the responses sent for req, in order
    handlerRan,  \* whether the route handler of req was entered
    freshSeed,   \* this startup ran seedInitialUsers to completion
    adminOps,    \* number of administrative updates made outside the service
    exitCode,    \* status passed to process.exit by the server, -1 while it runs
    autoSeed,    \* what autoSeedOnStartup of this startup found and did
    seedRun,     \* the run of seedUsers (seed-users.js), a process of its own
    ddl,         \* the last statement given to createTable and what was executed
    restarts,    \* number of times the server process was started again
    dbUp,        \* the backend accepts the connection of the starting server
    handle,      \* Database.pool / Database.connection of the server and its close calls
    race         \* two server processes starting at once against one store

vars == <<dbType, phase, tables, USERS, nextId, nextSalt, now, issued,
          req, res, handlerRan, freshSeed, adminOps,
          exitCode, autoSeed, seedRun, ddl, restarts, dbUp, handle, race>>

\* The state of startup and of the seeding script
procVars == <<exitCode, autoSeed, seedRun, ddl, restarts, dbUp, handle, race>>

----------------------------------------------------------------------------
(* Bounds of the model *)

MaxTime == 9
TickDays == 3
MaxTokens == 1
MaxAdminOps == 1
MaxRestarts == 1
MaxSeedRuns == 1
MaxSegments == 2
MaxSignals == 2

(* Program constants *)

JWT_SECRET == "your-super-secret-jwt-key-here"
JWT_EXPIRY == 7
saltRounds == 10

NoValue == "<undefined>"

Roles == {"admin", "driver", "customer", "dispatcher", "support"}

----------------------------------------------------------------------------
(* Rosters *)

\* testUsers of seedInitialUsers in server.js
serverTestUsers ==
    << [username |-> "admin", password |-> "admin123", role |-> "admin",
        email |-> "admin@example.com", firstName |-> "Admin", lastName |-> "User"],
       [username |-> "driver1", password |-> "driver123", role |-> "driver",
        email |-> "driver1@example.com", firstName |-> "John", lastName |-> "Driver"],
       [username |-> "customer1", password |-> "customer123", role |-> "customer",
        email |-> "customer1@example.com", firstName |-> "Jane", lastName |-> "Customer"] >>

\* testUsers of test-jwt.js: the accounts the test suite logs in with
testUsers ==
    << [username |-> "admin", password |-> "admin123", role |-> "admin"],
       [username |-> "driver1", password |-> "driver123", role |-> "driver"],
       [username |-> "customer1", password |-> "customer123", role |-> "customer"],
       [username |-> "dispatcher1", password |-> "dispatch123", role |-> "dispatcher"],
       [username |-> "support1", password |-> "support123", role |-> "support"] >>

\* testUsers of seed-users.js: the accounts the seeding script writes
seedTestUsers ==
    serverTestUsers \o
    << [username |-> "dispatcher1", password |-> "dispatch123", role |-> "dispatcher",
        email |-> "dispatcher1@example.com", firstName |-> "Mike",
        lastName |-> "Dispatcher"],
       [username |-> "support1", password |-> "support123", role |-> "support",
        email |-> "support1@example.com", firstName |-> "Sarah",
        lastName |-> "Support"] >>

----------------------------------------------------------------------------
(* bcryptjs *)

\* bcrypt.hash(password, 10) with the salt it drew: the hash string carries
\* the cost, the salt and the digest of (salt, password).
bcryptHash(password, salt) ==
    "$2a$" \o ToString(saltRounds) \o "$" \o ToString(salt) \o "$" \o password

\* bcrypt.compare(password, hash): re-hash the password with the salt
\* embedded in the hash and compare.
bcryptCompare(password, hash) ==
    \E s \in 1..(nextSalt - 1) : bcryptHash(password, s) = hash

----------------------------------------------------------------------------
(* Schema statements.  A statement is a sequence of atoms: pieces of words,  *)
(* the single space, the line break and punctuation.  A regular expression   *)
(* of the translation matches a run of atoms wherever it starts, inside a    *)
(* word or not.                                                              *)

\* The letters of an atom in upper case (the i flag of the expressions)
Upper(atom) ==
    CASE atom = "serial" -> "SERIAL"
      [] atom = "primary" -> "PRIMARY"
      [] atom = "key" -> "KEY"
      [] atom = "timestamp" -> "TIMESTAMP"
      [] atom = "with" -> "WITH"
      [] atom = "without" -> "WITHOUT"
      [] atom = "time" -> "TIME"
      [] atom = "zone" -> "ZONE"
      [] atom = "default" -> "DEFAULT"
      [] atom = "current_" -> "CURRENT_"
      [] atom = "on" -> "ON"
      [] atom = "update" -> "UPDATE"
      [] atom = "boolean" -> "BOOLEAN"
      [] atom = "Boolean" -> "BOOLEAN"
      [] atom = "true" -> "TRUE"
      [] atom = "True" -> "TRUE"
      [] atom = "false" -> "FALSE"
      [] OTHER -> atom

\* The pattern matches the statement at position i, letter case ignored
MatchesAt(stmt, i, pattern) ==
    /\ i + Len(pattern) - 1 <= Len(stmt)
    /\ \A k \in 1..Len(pattern) : Upper(stmt[i + k - 1]) = pattern[k]

\* The positions from i on at which the pattern matches
MatchesFrom(stmt, i, pattern) ==
    {p \in i..Len(stmt) : MatchesAt(stmt, p, pattern)}

\* String.prototype.replace with a global, case-insensitive expression:
\* the leftmost match from i on is replaced and the search goes on behind it
RECURSIVE ReplaceFrom(_, _, _, _)
ReplaceFrom(stmt, i, pattern, replacement) ==
    LET found == MatchesFrom(stmt, i, pattern)
    IN  IF found = {} THEN SubSeq(stmt, i, Len(stmt))
        ELSE LET p == CHOOSE q \in found : \A r \in found : q <= r
             IN  SubSeq(stmt, i, p - 1) \o replacement
                 \o ReplaceFrom(stmt, p + Len(pattern), pattern, replacement)

ReplaceAll(stmt, pattern, replacement) == ReplaceFrom(stmt, 1, pattern, replacement)

\* Database.convertPostgreSQLToSQLite
convertPostgreSQLToSQLite(postgresSql) ==
    LET s1 == ReplaceAll(postgresSql,
                  <<"SERIAL", " ", "PRIMARY", " ", "KEY">>,
                  <<"INTEGER", " ", "PRIMARY", " ", "KEY">>)
        s2 == ReplaceAll(s1,
                  <<"TIMESTAMP", " ", "WITH", " ", "TIME", " ", "ZONE">>,
                  <<"DATETIME">>)
        s3 == ReplaceAll(s2,
                  <<"TIMESTAMP", " ", "WITHOUT", " ", "TIME", " ", "ZONE">>,
                  <<"DATETIME">>)
        s4 == ReplaceAll(s3,
                  <<"TIMESTAMP", " ", "DEFAULT", " ", "CURRENT_", "TIMESTAMP">>,
                  <<"DATETIME", " ", "DEFAULT", " ", "CURRENT_", "TIMESTAMP">>)
        s5 == ReplaceAll(s4,
                  <<"ON", " ", "UPDATE", " ", "CURRENT_", "TIMESTAMP">>,
                  << >>)
        s6 == ReplaceAll(s5,
                  <<"BOOLEAN", " ", "DEFAULT", " ", "TRUE">>,
                  <<"BOOLEAN", " ", "DEFAULT", " ", "1">>)
    IN  ReplaceAll(s6,
                  <<"BOOLEAN", " ", "DEFAULT", " ", "FALSE">>,
                  <<"BOOLEAN", " ", "DEFAULT", " ", "0">>)

\* Database.createTable: the statement handed to execute
createTable(sql) ==
    IF dbType = "sqlite" THEN convertPostgreSQLToSQLite(sql) ELSE sql

\* createUsersTable: the canonical statement
createTableSQL ==
    <<"\n", "CREATE", " ", "TABLE", " ", "USERS", " ", "(", "\n",
      "id", " ", "SERIAL", " ", "PRIMARY", " ", "KEY", ",", "\n",
      "username", " ", "VARCHAR(50)", " ", "UNIQUE", " ", "NOT", " ", "NULL", ",", "\n",
      "password_hash", " ", "VARCHAR(255)", " ", "NOT", " ", "NULL", ",", "\n",
      "role", " ", "VARCHAR(20)", " ", "NOT", " ", "NULL", ",", "\n",
      "email", " ", "VARCHAR(100)", " ", "UNIQUE", " ", "NOT", " ", "NULL", ",", "\n",
      "firstName", " ", "VARCHAR(50)", ",", "\n",
      "lastName", " ", "VARCHAR(50)", ",", "\n",
      "isActive", " ", "BOOLEAN", " ", "DEFAULT", " ", "TRUE", ",", "\n",
      "createdAt", " ", "TIMESTAMP", " ", "WITH", " ", "TIME", " ", "ZONE", " ",
          "DEFAULT", " ", "CURRENT_", "TIMESTAMP", ",", "\n",
      "updatedAt", " ", "TIMESTAMP", " ", "WITH", " ", "TIME", " ", "ZONE", " ",
          "DEFAULT", " ", "CURRENT_", "TIMESTAMP", "\n",
      ")", "\n">>

\* The table a CREATE TABLE statement names, "" when it is no such statement
CreatedTable(stmt) ==
    LET words == SelectSeq(stmt, LAMBDA a : a \notin {" ", "\n"})
    IN  IF Len(words) >= 3 /\ Upper(words[1]) = "CREATE" /\ Upper(words[2]) = "TABLE"
        THEN words[3] ELSE ""

\* Pieces from which the statements given to createTable are put together
Segments ==
    { <<"SERIAL", " ", "PRIMARY", " ", "KEY">>,
      <<"serial", " ", "primary", " ", "key">>,
      <<"SERIAL", "\n", "PRIMARY", " ", "KEY">>,
      <<"BIG">>,
      <<"TIMESTAMP", " ", "WITH", " ", "TIME", " ", "ZONE">>,
      <<"timestamp", " ", "with", " ", "time", " ", "zone">>,
      <<"TIMESTAMP", " ", "WITHOUT", " ", "TIME", " ", "ZONE">>,
      <<"TIMESTAMP">>,
      <<" ", "DEFAULT", " ", "CURRENT_", "TIMESTAMP">>,
      <<"ON", " ", "UPDATE", " ", "CURRENT_", "TIMESTAMP">>,
      <<"on", " ", "update", " ", "current_", "timestamp">>,
      <<"BOOLEAN", " ", "DEFAULT", " ", "TRUE">>,
      <<"Boolean", " ", "default", " ", "True">>,
      <<"BOOLEAN", " ", "DEFAULT", " ", "FALSE">>,
      <<"boolean", " ", "default", " ", "false">>,
      <<" ">>, <<",">>, <<"id">>, <<"VARCHAR(50)">> }

\* The statements of at most n segments
RECURSIVE Concatenations(_)
Concatenations(n) ==
    IF n = 0 THEN {<< >>}
    ELSE LET shorter == Concatenations(n - 1)
         IN  shorter \cup {s \o g : s \in shorter, g \in Segments}

Statements == (Concatenations(MaxSegments) \ {<< >>}) \cup {createTableSQL}

----------------------------------------------------------------------------
(* Credential store *)

Columns == {"id", "username", "password_hash", "role", "email", "firstName",
            "lastName", "isActive", "createdAt", "updatedAt"}

\* PostgreSQL folds an unquoted identifier to lower case; SQLite keeps it.
FoldIdent(name) ==
    CASE name = "USERS" -> "users"
      [] name = "firstName" -> "firstname"
      [] name = "lastName" -> "lastname"
      [] name = "isActive" -> "isactive"
      [] name = "createdAt" -> "createdat"
      [] name = "updatedAt" -> "updatedat"
      [] OTHER -> name

\* The name under which the backend records an unquoted identifier.
StoredIdent(name) == IF dbType = "postgres" THEN FoldIdent(name) ELSE name

\* Database.tableExists
tableExists(tableName) == tableName \in tables

\* Database.execute of a SELECT <cols> ... : one result object per row, keyed
\* by the column names the backend reports.
SelectCols(cols, row) ==
    [k \in {StoredIdent(c) : c \in cols} |->
        row[CHOOSE c \in cols : StoredIdent(c) = k]]

\* The value of SELECT COUNT(*): node-postgres returns a bigint as a string,
\* sqlite3 returns a number.
CountResult(n) == [type |-> IF dbType = "postgres" THEN "string" ELSE "number",
                   value |-> n]

\* recordCount === 0
IsNumberZeroOrMore(c) == c.type = "number"

IsNumberZero(c) == c.type = "number" /\ c.value = 0

RowByUsername(rows, name) == {r \in rows : r["username"] = name}

NewRow(id, user, hash, t) ==
    [c \in Columns |->
        CASE c = "id" -> id
          [] c = "username" -> user.username
          [] c = "password_hash" -> hash
          [] c = "role" -> user.role
          [] c = "email" -> user.email
          [] c = "firstName" -> user.firstName
          [] c = "lastName" -> user.lastName
          [] c = "isActive" -> TRUE
          [] c = "createdAt" -> t
          [] OTHER -> t]

\* The UNIQUE constraints of username and email reject the new row
UniqueViolation(rows, user) ==
    \E r \in rows : r["username"] = user.username \/ r["email"] = user.email

MaxId(rows) ==
    IF rows = {} THEN 0
    ELSE CHOOSE m \in {r["id"] : r \in rows} : \A r \in rows : r["id"] <= m

\* The key the next inserted row gets: SERIAL draws from a sequence that
\* never goes back; INTEGER PRIMARY KEY is one more than the largest key
\* in the table.
NextKey(rows, sequence) ==
    IF dbType = "postgres" THEN sequence ELSE MaxId(rows) + 1

\* The store as one caller sees it during a seeding pass: rows is what the
\* connection in use reads (the committed rows and the writes of its open
\* transaction), committed is what every other connection reads, conn is the
\* connection the caller's statements run on (pool.query takes the idle
\* client of the pool; the single handle on sqlite), txConn is the
\* connection on which BEGIN opened a transaction that has not ended (0:
\* none), used is the set of connections that ran a statement of the pass,
\* outside tells that a write of the pass was committed on its own.
Session(rows, id, salt) ==
    [rows |-> rows, committed |-> rows, nextId |-> id, nextSalt |-> salt,
     aborted |-> FALSE, conn |-> 1, txConn |-> 0, used |-> {}, outside |-> FALSE]

InTransaction(st) == st.txConn = st.conn

\* A statement failed: inside a transaction PostgreSQL rejects every later
\* statement of the transaction, SQLite goes on.
AfterFailure(st) ==
    [st EXCEPT !.aborted = @ \/ (dbType = "postgres" /\ InTransaction(st))]

\* Plain INSERT of one user
InsertRow(st, user, hash, t) ==
    [st EXCEPT !.rows = @ \cup {NewRow(NextKey(st.rows, st.nextId), user, hash, t)},
               !.nextId = NextKey(st.rows, st.nextId) + 1]

\* One pass of the loop of seedInitialUsers: bcrypt.hash, then INSERT ... ON
\* CONFLICT (username) DO UPDATE SET password_hash, role, firstName,
\* lastName.  A second row with the same email violates the UNIQUE
\* constraint and the statement fails; thrown tells that the execute call
\* fails for a reason of the backend.  The error is caught in the loop.
UpsertInsertOnly(st, user, t, thrown) ==
    LET hash == bcryptHash(user.password, st.nextSalt)
    IN  InsertRow([st EXCEPT !.nextSalt = @ + 1], user, hash, t)

Upsert(st, user, t, thrown) ==
    LET hash   == bcryptHash(user.password, st.nextSalt)
        hashed == [st EXCEPT !.nextSalt = @ + 1]
        old    == RowByUsername(st.rows, user.username)
    IN  IF st.aborted \/ thrown THEN AfterFailure(hashed)
        ELSE IF old # {}
        THEN [hashed EXCEPT !.rows = {IF r \in old
                                      THEN [r EXCEPT !["password_hash"] = hash,
                                                     !["role"] = user.role,
                                                     !["firstName"] = user.firstName,
                                                     !["lastName"] = user.lastName]
                                      ELSE r : r \in st.rows},
                            !.nextId = IF dbType = "postgres" THEN @ + 1 ELSE @]
        ELSE IF UniqueViolation(st.rows, user)
        THEN [AfterFailure(hashed) EXCEPT
                  !.nextId = IF dbType = "postgres" THEN @ + 1 ELSE @]
        ELSE InsertRow(hashed, user, hash, t)

\* Database.execute around one statement of a pass: st is the session
\* before it and after what the statement made of the rows it reads.  When
\* the connection is lost during the statement the pool drops it and the
\* backend discards its open transaction; the next statement runs on a
\* connection the pool opens, with no transaction.  A write outside a
\* transaction is committed at once.
execute(st, after, lost) ==
    LET used == st.used \cup {st.conn}
    IN  IF lost
        THEN [after EXCEPT !.rows = st.committed,
                           !.aborted = FALSE,
                           !.txConn = IF InTransaction(st) THEN 0 ELSE @,
                           !.conn = st.conn + 1,
                           !.used = used]
        ELSE IF InTransaction(st)
        THEN [after EXCEPT !.used = used]
        ELSE [after EXCEPT !.committed = after.rows,
                           !.used = used,
                           !.outside = @ \/ after.rows # st.rows]

\* Database.beginTransaction
beginTransaction(st) ==
    [st EXCEPT !.txConn = st.conn, !.used = @ \cup {st.conn}]

\* Database.commit: COMMIT ends the transaction of the connection it runs
\* on, as a rollback when PostgreSQL had aborted it; on a connection without
\* a transaction it only draws a warning
commit(st) ==
    IF InTransaction(st)
    THEN LET rows == IF st.aborted THEN st.committed ELSE st.rows
         IN  [st EXCEPT !.rows = rows, !.committed = rows, !.aborted = FALSE,
                        !.txConn = 0, !.used = @ \cup {st.conn}]
    ELSE [st EXCEPT !.used = @ \cup {st.conn}]

\* A COMMIT that throws.  PostgreSQL has then ended the transaction as a
\* rollback; SQLite (SQLITE_BUSY) keeps it open.  gone: the connection was
\* lost or closed, which discards the transaction on both backends.
commitThrows(st, gone) ==
    IF InTransaction(st) /\ (gone \/ dbType = "postgres")
    THEN [st EXCEPT !.rows = st.committed, !.aborted = FALSE, !.txConn = 0,
                    !.used = @ \cup {st.conn}]
    ELSE [st EXCEPT !.used = @ \cup {st.conn}]

\* A rollback that ends the transaction and keeps its writes
rollbackKeepsWrites(st) ==
    IF InTransaction(st)
    THEN [st EXCEPT !.committed = st.rows, !.aborted = FALSE, !.txConn = 0,
                    !.used = @ \cup {st.conn}]
    ELSE [st EXCEPT !.used = @ \cup {st.conn}]

\* Database.rollback
rollback(st) ==
    IF InTransaction(st)
    THEN [st EXCEPT !.rows = st.committed, !.aborted = FALSE, !.txConn = 0,
                    !.used = @ \cup {st.conn}]
    ELSE [st EXCEPT !.used = @ \cup {st.conn}]

\* What may go wrong in the backend during seedInitialUsers: BEGIN throws;
\* the statement of one roster account throws; the connection is lost during
\* the statement of one roster account (postgres); COMMIT throws; COMMIT and
\* ROLLBACK throw because the connection is gone
WriteFaults == {"none", "begin", "row1", "row2", "row3", "lost1", "lost2",
                "lost3", "commit", "rollback"}

LostFaults == {"lost1", "lost2", "lost3"}

FailAt(fault) ==
    CASE fault = "row1" -> 1
      [] fault = "row2" -> 2
      [] fault = "row3" -> 3
      [] OTHER -> 0

LostAt(fault) ==
    CASE fault = "lost1" -> 1
      [] fault = "lost2" -> 2
      [] fault = "lost3" -> 3
      [] OTHER -> 0

\* seedInitialUsers: the loop over testUsers
RECURSIVE SeedFrom(_, _, _, _)
SeedFrom(i, st, t, fault) ==
    IF i > Len(serverTestUsers) THEN st
    ELSE LET lost   == i = LostAt(fault)
             thrown == i = FailAt(fault) \/ lost
             after  == Upsert(st, serverTestUsers[i], t, thrown)
         IN  SeedFrom(i + 1, execute(st, after, lost), t, fault)

\* The catch block around the loop and COMMIT that throws the error again
\* without a ROLLBACK
catchWithoutRollback(st, gone) == [st |-> st, threw |-> TRUE, rolledBack |-> FALSE]

\* The catch block around the loop and COMMIT: ROLLBACK, then the error is
\* thrown again (when ROLLBACK throws, its error is thrown instead)
catchAndRollback(st, gone) ==
    [st |-> IF gone THEN st ELSE rollback(st), threw |-> TRUE, rolledBack |-> TRUE]

\* seedInitialUsers: BEGIN, the loop, COMMIT.  Returns the session, whether
\* the function threw and whether it called rollback.
seedInitialUsers(st0, t, fault) ==
    IF fault = "begin"
    THEN [st |-> [st0 EXCEPT !.used = @ \cup {st0.conn}], threw |-> TRUE,
          rolledBack |-> FALSE]
    ELSE LET st == SeedFrom(1, beginTransaction(st0), t, fault)
         IN  IF fault \in {"commit", "rollback"}
             THEN catchAndRollback(commitThrows(st, fault = "rollback"),
                                   fault = "rollback")
             ELSE [st |-> commit(st), threw |-> FALSE, rolledBack |-> FALSE]

\* The key the backend hands out next once a pass is over
KeyAfter(st) == IF dbType = "postgres" THEN st.nextId ELSE MaxId(st.committed) + 1

----------------------------------------------------------------------------
(* jsonwebtoken *)

EmptyObj == [k \in {} |-> NoValue]

\* An object literal restricted to the members that are defined
Pick(obj, keys) == [k \in (keys \cap DOMAIN obj) |-> obj[k]]

\* HMAC of the payload under a key
Signature(payload, key) == [over |-> payload, key |-> key]

\* jwt.sign(payload, secret, { expiresIn }) at time t
jwtSign(payload, secret, expiresIn, t) ==
    LET full == payload @@ [iat |-> t, exp |-> t + expiresIn]
    IN  [wellFormed |-> TRUE, payload |-> full, sig |-> Signature(full, secret)]

\* A string that is not a three-segment token
GarbageToken == [wellFormed |-> FALSE, payload |-> EmptyObj,
                 sig |-> Signature(EmptyObj, "")]

\* jwt.verify with the expiry check left out
jwtVerifyIgnoreExpiration(token, secret, t) ==
    IF ~token.wellFormed THEN [err |-> "JsonWebTokenError", decoded |-> EmptyObj]
    ELSE IF token.sig # Signature(token.payload, secret)
    THEN [err |-> "JsonWebTokenError", decoded |-> EmptyObj]
    ELSE [err |-> "", decoded |-> token.payload]

\* jwt.verify(token, secret) at time t: malformed, bad signature and expired
\* tokens yield an error, otherwise the decoded payload.
jwtVerify(token, secret, t) ==
    IF ~token.wellFormed THEN [err |-> "JsonWebTokenError", decoded |-> EmptyObj]
    ELSE IF token.sig # Signature(token.payload, secret)
    THEN [err |-> "JsonWebTokenError", decoded |-> EmptyObj]
    ELSE IF t >= token.payload["exp"]
    THEN [err |-> "TokenExpiredError", decoded |-> EmptyObj]
    ELSE [err |-> "", decoded |-> token.payload]

\* generateToken(user) at time t
generateToken(user, t) ==
    jwtSign(Pick(user, {"id", "username", "role", "email"}), JWT_SECRET, JWT_EXPIRY, t)

----------------------------------------------------------------------------
(* Access gate *)

Response(status, body) == [status |-> status, body |-> body]

\* The Authorization header: parts is authHeader.split(' ') without its first
\* element, so the token is parts[1] when there is one.
NoHeader == [present |-> FALSE, parts |-> << >>]
BearerOnly == [present |-> TRUE, parts |-> << >>]
Bearer(token) == [present |-> TRUE, parts |-> <<token>>]

HasToken(header) == header.present /\ Len(header.parts) >= 1

\* authenticateToken without the return in its missing-token branch: it goes
\* on to jwt.verify, which fails on the undefined token
authenticateTokenNoReturn(header, t) ==
    IF ~HasToken(header)
    THEN [sent |-> <<Response(401, [error |-> "Access token required"]),
                     Response(403, [error |-> "Invalid or expired token"])>>,
          next |-> FALSE, hasUser |-> FALSE, user |-> EmptyObj]
    ELSE LET v == jwtVerify(header.parts[1], JWT_SECRET, t)
         IN  IF v.err # ""
             THEN [sent |-> <<Response(403, [error |-> "Invalid or expired token"])>>,
                   next |-> FALSE, hasUser |-> FALSE, user |-> EmptyObj]
             ELSE [sent |-> << >>, next |-> TRUE, hasUser |-> TRUE, user |-> v.decoded]

\* authenticateToken: what it sends, whether it calls next(), and req.user
authenticateToken(header, t) ==
    IF ~HasToken(header)
    THEN [sent |-> <<Response(401, [error |-> "Access token required"])>>,
          next |-> FALSE, hasUser |-> FALSE, user |-> EmptyObj]
    ELSE LET v == jwtVerify(header.parts[1], JWT_SECRET, t)
         IN  IF v.err # ""
             THEN [sent |-> <<Response(403, [error |-> "Invalid or expired token"])>>,
                   next |-> FALSE, hasUser |-> FALSE, user |-> EmptyObj]
             ELSE [sent |-> << >>, next |-> TRUE, hasUser |-> TRUE, user |-> v.decoded]

InRoles(roles, role) == \E i \in 1..Len(roles) : roles[i] = role

\* requireRole deciding by the role stored for the user instead of the
\* role in the token
requireRoleFromStore(roles, hasUser, user) ==
    LET rows == {r \in USERS : "id" \in DOMAIN user /\ r["id"] = user["id"]}
    IN  IF ~hasUser \/ ~\E r \in rows : r["isActive"] /\ InRoles(roles, r["role"])
        THEN [sent |-> <<Response(403, [error |-> "Insufficient permissions",
                                         required |-> roles])>>,
              next |-> FALSE]
        ELSE [sent |-> << >>, next |-> TRUE]

\* requireRole(...roles): what it sends and whether it calls next()
requireRole(roles, hasUser, user) ==
    IF ~hasUser \/ "role" \notin DOMAIN user \/ ~InRoles(roles, user["role"])
    THEN [sent |-> <<Response(403,
                     IF "role" \in DOMAIN user
                     THEN [error |-> "Insufficient permissions",
                           required |-> roles, current |-> user["role"]]
                     ELSE [error |-> "Insufficient permissions",
                           required |-> roles])>>,
          next |-> FALSE]
    ELSE [sent |-> << >>, next |-> TRUE]

\* Route registrations of server.js
Routes == {"/api/users", "/api/me", "/api/admin/test-jwt", "/api/driver/test-jwt"}

HasRoleGuard(route) == route # "/api/me"

\* The route table with the driver route closed to admins
RequiredRolesDriverOnly(route) ==
    CASE route = "/api/users" -> <<"admin">>
      [] route = "/api/admin/test-jwt" -> <<"admin">>
      [] route = "/api/driver/test-jwt" -> <<"driver">>
      [] OTHER -> << >>

RequiredRoles(route) ==
    CASE route = "/api/users" -> <<"admin">>
      [] route = "/api/admin/test-jwt" -> <<"admin">>
      [] route = "/api/driver/test-jwt" -> <<"driver", "admin">>
      [] OTHER -> << >>

\* express runs the middleware chain of the route: each next() enters the
\* following middleware, the last next() enters the handler.
RunGate(route, header, t) ==
    LET a == authenticateToken(header, t)
        r == IF a.next /\ HasRoleGuard(route)
             THEN requireRole(RequiredRoles(route), a.hasUser, a.user)
             ELSE [sent |-> << >>, next |-> a.next]
    IN  [sent |-> a.sent \o r.sent, proceed |-> r.next,
         hasUser |-> a.hasUser, user |-> a.user]

----------------------------------------------------------------------------
(* Route handlers *)

\* A presence check that only recognises an absent field
FalsyUndefinedOnly(v) == v = NoValue

\* !v for a request field
Falsy(v) == v \in {"", NoValue}

\* obj[key] is truthy
Truthy(obj, key) == key \in DOMAIN obj /\ obj[key] = TRUE

UsersTablePresent == StoredIdent("USERS") \in tables

loginCols == {"id", "username", "password_hash", "role", "email", "firstName",
              "lastName", "isActive"}
publicCols == {"id", "username", "role", "email", "firstName", "lastName",
               "isActive", "createdAt", "updatedAt"}

\* SELECT ... FROM USERS WHERE username = $1 OR email = $1
loginSelect(rows, username) ==
    {SelectCols(loginCols, r) : r \in {x \in rows : x["username"] = username
                                                   \/ x["email"] = username}}

\* The lookup without the isActive check
loginLookupNoActiveCheck(username, password, throws, users, first) ==
    IF Falsy(username) \/ Falsy(password)
    THEN [sent |-> <<Response(400, [error |-> "Username and password are required"])>>,
          pc |-> "done", queried |-> FALSE, hasUser |-> FALSE, user |-> EmptyObj]
    ELSE IF throws
    THEN [sent |-> <<Response(500, [error |-> "Internal server error"])>>,
          pc |-> "done", queried |-> TRUE, hasUser |-> FALSE, user |-> EmptyObj]
    ELSE IF users = {}
    THEN [sent |-> <<Response(401, [error |-> "Invalid credentials"])>>,
          pc |-> "done", queried |-> TRUE, hasUser |-> FALSE, user |-> EmptyObj]
    ELSE [sent |-> << >>,
          pc |-> "compare", queried |-> TRUE, hasUser |-> TRUE, user |-> first]

\* POST /api/auth/login up to the lookup: validation, the SELECT (which may
\* throw), users[0] = first, the isActive check.
loginLookup(username, password, throws, users, first) ==
    IF Falsy(username) \/ Falsy(password)
    THEN [sent |-> <<Response(400, [error |-> "Username and password are required"])>>,
          pc |-> "done", queried |-> FALSE, hasUser |-> FALSE, user |-> EmptyObj]
    ELSE IF throws
    THEN [sent |-> <<Response(500, [error |-> "Internal server error"])>>,
          pc |-> "done", queried |-> TRUE, hasUser |-> FALSE, user |-> EmptyObj]
    ELSE IF users = {}
    THEN [sent |-> <<Response(401, [error |-> "Invalid credentials"])>>,
          pc |-> "done", queried |-> TRUE, hasUser |-> FALSE, user |-> EmptyObj]
    ELSE IF ~Truthy(first, "isActive")
    THEN [sent |-> <<Response(401, [error |-> "Account is deactivated"])>>,
          pc |-> "done", queried |-> TRUE, hasUser |-> TRUE, user |-> first]
    ELSE [sent |-> << >>,
          pc |-> "compare", queried |-> TRUE, hasUser |-> TRUE, user |-> first]

\* A login body that spreads the whole record into user
loginBodyWholeRecord(user, token) ==
    [success |-> TRUE, message |-> "Login successful", token |-> token,
     user |-> user]

\* The body of the 200 response of the login handler
loginBody(user, token) ==
    [success |-> TRUE, message |-> "Login successful", token |-> token,
     user |-> Pick(user, {"id", "username", "role", "email", "firstName", "lastName"})]

\* The password check with a message of its own for a mismatch
loginVerifyOwnMessage(password, user, t) ==
    IF ~bcryptCompare(password, user["password_hash"])
    THEN [sent |-> <<Response(401, [error |-> "Incorrect password"])>>,
          tokens |-> {}]
    ELSE LET token == jwtSign(Pick(user, {"id", "username", "role", "email"}),
                              JWT_SECRET, JWT_EXPIRY, t)
         IN  [sent |-> <<Response(200, [success |-> TRUE,
                                        message |-> "Login successful",
                                        token |-> token,
                                        user |-> Pick(user, {"id", "username", "role",
                                                             "email", "firstName",
                                                             "lastName"})])>>,
              tokens |-> {token}]

\* The handler without the password check
loginVerifyNoCompare(password, user, t) ==
    LET token == generateToken(user, t)
    IN  [sent |-> <<Response(200, loginBody(user, token))>>,
         tokens |-> {token}]

\* POST /api/auth/login after the lookup: bcrypt.compare, generateToken and
\* the response.
loginVerify(password, user, t) ==
    IF ~bcryptCompare(password, user["password_hash"])
    THEN [sent |-> <<Response(401, [error |-> "Invalid credentials"])>>,
          tokens |-> {}]
    ELSE LET token == generateToken(user, t)
         IN  [sent |-> <<Response(200, loginBody(user, token))>>,
              tokens |-> {token}]

\* The catch block of the login handler
loginCatchWithDetail ==
    [sent |-> <<Response(500, [error |-> "Internal server error",
                               message |-> "Illegal arguments: number, string"])>>,
     tokens |-> {}]

loginCatch ==
    [sent |-> <<Response(500, [error |-> "Internal server error"])>>,
     tokens |-> {}]

\* { ...user, password_hash: undefined } as serialized
StripHash(user) == [k \in (DOMAIN user \ {"password_hash"}) |-> user[k]]

\* ORDER BY username
UsernameRank(name) ==
    CASE name = "admin" -> 1
      [] name = "customer1" -> 2
      [] name = "dispatcher1" -> 3
      [] name = "driver1" -> 4
      [] name = "support1" -> 5
      [] OTHER -> 6

RECURSIVE OrderByUsername(_)
OrderByUsername(rows) ==
    IF rows = {} THEN << >>
    ELSE LET r == CHOOSE x \in rows :
                    \A y \in rows : UsernameRank(x["username"]) <= UsernameRank(y["username"])
         IN  <<r>> \o OrderByUsername(rows \ {r})

SelectPublic(row) == SelectCols(publicCols, row)

\* GET /api/users handler
usersHandler(rows, throws) ==
    IF throws THEN Response(500, [error |-> "Failed to fetch users"])
    ELSE LET ordered == OrderByUsername(rows)
             users == [i \in 1..Len(ordered) |-> SelectPublic(ordered[i])]
         IN  Response(200, [success |-> TRUE, count |-> Len(users),
                            users |-> [i \in 1..Len(users) |-> StripHash(users[i])]])

\* GET /api/me handler
meHandler(user, rows, throws) ==
    IF throws THEN Response(500, [error |-> "Failed to fetch user info"])
    ELSE LET users == {SelectPublic(r) : r \in
                          {x \in rows : "id" \in DOMAIN user /\ x["id"] = user["id"]}}
         IN  IF users = {}
             THEN Response(404, [error |-> "User not found"])
             ELSE Response(200, [success |-> TRUE,
                                 user |-> StripHash(CHOOSE u \in users : TRUE)])

\* GET /api/admin/test-jwt and GET /api/driver/test-jwt handlers
echoHandler(route, user, t) ==
    Response(200, [success |-> TRUE,
                   message |-> IF route = "/api/admin/test-jwt"
                               THEN "JWT authentication successful!"
                               ELSE "Driver JWT authentication successful!",
                   user |-> user, timestamp |-> t])

IsAsyncHandler(route) == route \in {"/api/users", "/api/me"}

----------------------------------------------------------------------------
(* Startup *)

NoReq ==
    [kind |-> "none", route |-> "none", header |-> NoHeader,
     username |-> NoValue, password |-> NoValue,
     hasUser |-> FALSE, user |-> EmptyObj, at |-> 0, pc |-> "done",
     queried |-> FALSE, compared |-> FALSE, dbError |-> FALSE]

\* autoSeedOnStartup has not run in this process
NoAutoSeed ==
    [ran |-> FALSE, fault |-> "none", caught |-> FALSE, rolledBack |-> FALSE,
     open |-> FALSE, used |-> {}, outside |-> FALSE]

\* seedUsers has not been called
NoSeedRun ==
    [pc |-> "idle", force |-> FALSE, hasRecords |-> FALSE, result |-> "none",
     runs |-> 0, before |-> {}, fault |-> "none", rolledBack |-> FALSE,
     open |-> FALSE]

NoDdl == [sql |-> << >>, executed |-> << >>]

\* Neither pool nor connection has been assigned, close was not called
NoHandle == [state |-> "none", closes |-> 0, threw |-> FALSE]

\* No second server process
NoRace == [procs |-> << >>, writer |-> 0]

Init ==
    /\ dbType \in {"postgres", "sqlite"}
    /\ phase = "boot"
    /\ tables \in {{}, {StoredIdent("USERS")}}
    /\ USERS = {}
    /\ nextId = 1
    /\ nextSalt = 1
    /\ now = 0
    /\ issued = {}
    /\ req = NoReq
    /\ res = << >>
    /\ handlerRan = FALSE
    /\ freshSeed = FALSE
    /\ adminOps = 0
    /\ exitCode = -1
    /\ autoSeed = NoAutoSeed
    /\ seedRun = NoSeedRun
    /\ ddl = NoDdl
    /\ restarts = 0
    /\ dbUp \in BOOLEAN
    /\ handle = NoHandle
    /\ race = NoRace

\* Database.connect: logs the error and throws it again
connectSwallowsError(ok) == [threw |-> FALSE]

connect(ok) == [threw |-> ~ok]

\* startServer: await db.connect(); a thrown error ends in process.exit(1)
Connect ==
    /\ phase = "boot"
    /\ LET c == connect(dbUp)
       IN  /\ phase' = IF c.threw THEN "exited" ELSE "connected"
           /\ exitCode' = IF c.threw THEN 1 ELSE exitCode
    /\ UNCHANGED <<dbType, tables, USERS, nextId, nextSalt, now, issued,
                   req, res, handlerRan, freshSeed, adminOps>>
    /\ handle' = [handle EXCEPT !.state = "open"]
    /\ UNCHANGED <<autoSeed, seedRun, ddl, restarts, dbUp, race>>

\* What may go wrong in the backend before seedInitialUsers is called
CheckFaults == {"none", "tableExists", "createTable", "count"}

\* autoSeedOnStartup up to the call of seedInitialUsers: the existence
\* check, then createUsersTable or the row count.  CREATE TABLE fails when
\* the backend already holds the table.  Tells whether the table was
\* created, whether seedInitialUsers is called and whether an error reached
\* the catch block.
autoSeedCheck(fault) ==
    IF fault = "tableExists"
    THEN [created |-> FALSE, seed |-> FALSE, caught |-> TRUE]
    ELSE IF ~tableExists("USERS")
    THEN IF fault = "createTable" \/ UsersTablePresent
         THEN [created |-> FALSE, seed |-> FALSE, caught |-> TRUE]
         ELSE [created |-> TRUE, seed |-> TRUE, caught |-> FALSE]
    ELSE IF fault = "count"
    THEN [created |-> FALSE, seed |-> FALSE, caught |-> TRUE]
    ELSE [created |-> FALSE,
          seed |-> IsNumberZero(CountResult(Cardinality(USERS))),
          caught |-> FALSE]

\* The catch block of autoSeedOnStartup: where startServer stands once
\* autoSeedOnStartup is over
autoSeedRethrows(caught) == IF caught THEN "exited" ELSE "seeded"

autoSeedReturns(caught) == "seeded"

\* autoSeedOnStartup, first part (up to the call of seedInitialUsers).  Once
\* close was called the first call to the backend is rejected.
autoSeedOnStartupStep(faults) ==
    /\ phase = "connected"
    /\ \E fault \in faults :
         LET o == autoSeedCheck(fault)
             executed == createTable(createTableSQL)
             after == autoSeedReturns(o.caught)
         IN  /\ handle.state = "ended" => fault = "tableExists"
             /\ phase' = IF o.seed THEN "seeding" ELSE after
             /\ exitCode' = IF ~o.seed /\ after = "exited" THEN 1 ELSE exitCode
             /\ tables' = IF o.created
                          THEN tables \cup {StoredIdent(CreatedTable(executed))}
                          ELSE tables
             /\ autoSeed' = [NoAutoSeed EXCEPT
                                !.ran = TRUE,
                                !.fault = IF o.caught THEN fault ELSE "none",
                                !.caught = o.caught]
    /\ UNCHANGED <<dbType, USERS, nextId, nextSalt, now, issued,
                   req, res, handlerRan, freshSeed, adminOps>>
    /\ UNCHANGED <<seedRun, ddl, restarts, dbUp, handle, race>>

\* autoSeedOnStartup, second part: seedInitialUsers and the return
seedInitialUsersStep(faults) ==
    /\ phase = "seeding"
    /\ \E fault \in faults :
         LET o == seedInitialUsers(Session(USERS, nextId, nextSalt), now, fault)
             after == autoSeedReturns(o.threw)
         IN  /\ handle.state = "ended" => fault = "begin"
             /\ fault \in LostFaults => dbType = "postgres"
             /\ USERS' = o.st.committed
             /\ nextId' = KeyAfter(o.st)
             /\ nextSalt' = o.st.nextSalt
             /\ freshSeed' = (fault = "none")
             /\ phase' = after
             /\ exitCode' = IF after = "exited" THEN 1 ELSE exitCode
             /\ autoSeed' = [autoSeed EXCEPT !.fault = fault,
                                             !.caught = o.threw,
                                             !.rolledBack = o.rolledBack,
                                             !.open = o.st.txConn # 0,
                                             !.used = o.st.used,
                                             !.outside = o.st.outside]
    /\ UNCHANGED <<dbType, tables, now, issued, req, res, handlerRan, adminOps>>
    /\ UNCHANGED <<seedRun, ddl, restarts, dbUp, handle, race>>

\* A startup during which the backend answers every statement
autoSeedOnStartup == autoSeedOnStartupStep({"none"})

seedInitialUsersCall == seedInitialUsersStep({"none"})

\* A startup during which one call to the backend may fail
autoSeedOnStartupFaulty == autoSeedOnStartupStep(CheckFaults)

seedInitialUsersFaulty == seedInitialUsersStep(WriteFaults)

\* A listener that starts as soon as the database is connected
ListenEarly ==
    /\ phase \in {"connected", "seeding", "seeded"}
    /\ phase' = "listening"
    /\ UNCHANGED <<dbType, tables, USERS, nextId, nextSalt, now, issued,
                   req, res, handlerRan, freshSeed, adminOps>>
    /\ UNCHANGED procVars

\* app.listen
Listen ==
    /\ phase = "seeded"
    /\ phase' = "listening"
    /\ UNCHANGED <<dbType, tables, USERS, nextId, nextSalt, now, issued,
                   req, res, handlerRan, freshSeed, adminOps>>
    /\ UNCHANGED procVars

\* The server process is started again against the store it left
Restart ==
    /\ phase \in {"listening", "exited"}
    /\ req.kind = "none"
    /\ restarts < MaxRestarts
    /\ restarts' = restarts + 1
    /\ phase' = "boot"
    /\ exitCode' = -1
    /\ autoSeed' = NoAutoSeed
    /\ freshSeed' = FALSE
    /\ dbUp' \in BOOLEAN
    /\ handle' = NoHandle
    /\ UNCHANGED <<dbType, tables, USERS, nextId, nextSalt, now, issued,
                   req, res, handlerRan, adminOps, seedRun, ddl, race>>

\* Database.close.  this.pool and this.connection stay assigned after a
\* close.  pool.end() of a pool that was ended before rejects ("Called end
\* on pool more than once"); connection.close of a closed handle hands the
\* error to the callback, which logs it and resolves.
close(h) ==
    IF h.state = "none" THEN [state |-> "none", threw |-> FALSE]
    ELSE IF dbType = "postgres"
    THEN [state |-> "ended", threw |-> h.state = "ended"]
    ELSE [state |-> "ended", threw |-> FALSE]

\* SIGINT or SIGTERM arrives: the handler calls db.close() and awaits it
Signal ==
    /\ phase \in {"boot", "connected", "seeding", "seeded", "listening"}
    /\ handle.closes < MaxSignals
    /\ LET c == close(handle)
       IN  handle' = [state |-> c.state, closes |-> handle.closes + 1,
                      threw |-> handle.threw \/ c.threw]
    /\ UNCHANGED <<dbType, phase, tables, USERS, nextId, nextSalt, now, issued,
                   req, res, handlerRan, freshSeed, adminOps>>
    /\ UNCHANGED <<exitCode, autoSeed, seedRun, ddl, restarts, dbUp, race>>

\* The handler goes on behind its await: process.exit(0).  A close that
\* rejected is an unhandled rejection, which ends the process with status 1
\* where the runtime treats it as fatal.
SignalExit ==
    /\ phase \in {"boot", "connected", "seeding", "seeded", "listening"}
    /\ handle.closes > 0
    /\ phase' = "exited"
    /\ exitCode' \in IF handle.threw THEN {0, 1} ELSE {0}
    /\ UNCHANGED <<dbType, tables, USERS, nextId, nextSalt, now, issued,
                   req, res, handlerRan, freshSeed, adminOps>>
    /\ UNCHANGED <<autoSeed, seedRun, ddl, restarts, dbUp, handle, race>>

----------------------------------------------------------------------------
(* The seeding script, seed-users.js: a process of its own on the same store *)

\* recordCount > 0; a string is converted to a number
CountPositive(c) == c.value > 0

\* checkUsersTable: creates the table when tableExists answers no; CREATE
\* TABLE fails when the backend already holds the table and the error is
\* thrown again
checkUsersTable ==
    IF ~tableExists("USERS")
    THEN IF UsersTablePresent
         THEN [threw |-> TRUE, created |-> FALSE, hasRecords |-> FALSE]
         ELSE [threw |-> FALSE, created |-> TRUE, hasRecords |-> FALSE]
    ELSE [threw |-> FALSE, created |-> FALSE,
          hasRecords |-> CountPositive(CountResult(Cardinality(USERS)))]

\* What may go wrong in the backend during the transaction of seedUsers
ScriptFaults == {"none", "begin", "row1", "commit", "rollback"}

\* seedUsers: one pass of the loop over testUsers.  thrown: a statement of
\* the pass throws; the error is caught in the loop and counted.
seedUsersPass(acc, user, t, force, thrown) ==
    LET st       == acc.st
        existing == {r \in st.rows : r["username"] = user.username
                                     \/ r["email"] = user.email}
        hash     == bcryptHash(user.password, st.nextSalt)
        hashed   == [st EXCEPT !.nextSalt = @ + 1]
    IN  IF st.aborted \/ thrown
        THEN [acc EXCEPT !.st = AfterFailure(st), !.errorCount = @ + 1]
        ELSE IF existing # {}
        THEN IF force
             THEN [acc EXCEPT
                     !.st = [hashed EXCEPT !.rows =
                               {IF r["username"] = user.username
                                THEN [r EXCEPT !["password_hash"] = hash,
                                               !["role"] = user.role,
                                               !["firstName"] = user.firstName,
                                               !["lastName"] = user.lastName,
                                               !["isActive"] = TRUE]
                                ELSE r : r \in st.rows}],
                     !.successCount = @ + 1]
             ELSE acc
        ELSE [acc EXCEPT !.st = InsertRow(hashed, user, hash, t),
                         !.successCount = @ + 1]

RECURSIVE SeedUsersFrom(_, _, _, _, _)
SeedUsersFrom(i, acc, t, force, fault) ==
    IF i > Len(seedTestUsers) THEN acc
    ELSE LET after == seedUsersPass(acc, seedTestUsers[i], t, force, i = FailAt(fault))
         IN  SeedUsersFrom(i + 1,
                           [after EXCEPT !.st = execute(acc.st, after.st, FALSE)],
                           t, force, fault)

\* seedUsers from beginTransaction on: the loop, COMMIT and the result
seedUsersBatch(st0, t, force, fault) ==
    IF fault = "begin"
    THEN [st |-> [st0 EXCEPT !.used = @ \cup {st0.conn}], threw |-> TRUE,
          rolledBack |-> FALSE, result |-> FALSE]
    ELSE LET acc == SeedUsersFrom(1, [st |-> beginTransaction(st0),
                                      successCount |-> 0, errorCount |-> 0],
                                  t, force, fault)
         IN  IF fault \in {"commit", "rollback"}
             THEN LET c == catchAndRollback(commitThrows(acc.st, fault = "rollback"),
                                            fault = "rollback")
                  IN  [st |-> c.st, threw |-> c.threw, rolledBack |-> c.rolledBack,
                       result |-> FALSE]
             ELSE [st |-> commit(acc.st), threw |-> FALSE, rolledBack |-> FALSE,
                   result |-> acc.successCount > 0 /\ acc.errorCount = 0]

\* seedUsers(force) is called: checkUsersTable, the early return, and with
\* force the DELETE FROM USERS, which is executed before the transaction
\* begins
seedUsersCall ==
    /\ seedRun.pc \in {"idle", "done"}
    /\ seedRun.runs < MaxSeedRuns
    /\ \E force \in BOOLEAN :
         LET c == checkUsersTable
             run == [NoSeedRun EXCEPT !.force = force,
                                      !.hasRecords = c.hasRecords,
                                      !.runs = seedRun.runs + 1,
                                      !.before = USERS]
         IN  /\ tables' = IF c.created
                          THEN tables \cup
                               {StoredIdent(CreatedTable(createTable(createTableSQL)))}
                          ELSE tables
             /\ IF c.threw
                THEN /\ seedRun' = [run EXCEPT !.pc = "done", !.result = "threw"]
                     /\ UNCHANGED <<USERS, nextId>>
                ELSE IF c.hasRecords /\ ~force
                THEN /\ seedRun' = [run EXCEPT !.pc = "done", !.result = "false"]
                     /\ UNCHANGED <<USERS, nextId>>
                ELSE /\ seedRun' = [run EXCEPT !.pc = "write", !.result = "none"]
                     /\ USERS' = IF force THEN {} ELSE USERS
                     /\ nextId' = IF force THEN NextKey({}, nextId) ELSE nextId
    /\ UNCHANGED <<dbType, phase, nextSalt, now, issued, req, res, handlerRan,
                   freshSeed, adminOps, exitCode, autoSeed, ddl, restarts, dbUp,
                   handle, race>>

\* seedUsers goes on: the transaction and the return value
seedUsersWriteStep(faults) ==
    /\ seedRun.pc = "write"
    /\ \E fault \in faults :
         LET o == seedUsersBatch(Session(USERS, nextId, nextSalt), now,
                                 seedRun.force, fault)
         IN  /\ USERS' = o.st.committed
             /\ nextId' = KeyAfter(o.st)
             /\ nextSalt' = o.st.nextSalt
             /\ seedRun' = [seedRun EXCEPT
                              !.pc = "done",
                              !.result = IF o.threw THEN "threw"
                                         ELSE IF o.result THEN "true" ELSE "false",
                              !.fault = fault,
                              !.rolledBack = o.rolledBack,
                              !.open = o.st.txConn # 0]
    /\ UNCHANGED <<dbType, phase, tables, now, issued, req, res, handlerRan,
                   freshSeed, adminOps, exitCode, autoSeed, ddl, restarts, dbUp,
                   handle, race>>

\* A run of the script during which the backend answers every statement
seedUsersWrite == seedUsersWriteStep({"none"})

\* A run of the script during which one call to the backend may fail
seedUsersWriteFaulty == seedUsersWriteStep(ScriptFaults)

----------------------------------------------------------------------------
(* Two server processes started at once against one store.  Each runs      *)
(* startServer; a step is one awaited call.  A process reads the committed  *)
(* rows and the writes of its own transaction.  writer is the process whose *)
(* transaction has written and not yet ended: SQLite lets one transaction   *)
(* write at a time and answers SQLITE_BUSY to the other once its busy       *)
(* timeout is over; PostgreSQL makes the other wait on a row with the same  *)
(* key.                                                                     *)

Procs == {1, 2}

\* A server process before db.connect()
NewProc ==
    [pc |-> "boot", i |-> 1, view |-> {}, aborted |-> FALSE, wrote |-> 0,
     caught |-> FALSE]

Pc(p) == race.procs[p].pc

\* The process moves on: its record changes, the lock holder may change
Moves(p, proc, writer) ==
    race' = [procs |-> [race.procs EXCEPT ![p] = proc], writer |-> writer]

StoreUnchanged == UNCHANGED <<tables, USERS, nextId, nextSalt>>

RestUnchanged ==
    UNCHANGED <<dbType, phase, now, issued, req, res, handlerRan, freshSeed,
                adminOps, exitCode, autoSeed, seedRun, ddl, restarts, dbUp, handle>>

\* createUsersTable: the statement createTable hands to execute on each
\* backend
createUsersTableStatement ==
    [postgres |-> createTableSQL,
     sqlite   |-> convertPostgreSQLToSQLite(createTableSQL)]

\* startServer: await db.connect()
RaceConnect(p) ==
    /\ Pc(p) = "boot"
    /\ Moves(p, [race.procs[p] EXCEPT !.pc = "check"], race.writer)
    /\ StoreUnchanged
    /\ RestUnchanged

\* autoSeedOnStartup: await db.tableExists('USERS')
RaceTableExists(p) ==
    /\ Pc(p) = "check"
    /\ Moves(p, [race.procs[p] EXCEPT
                    !.pc = IF tableExists("USERS") THEN "count" ELSE "create"],
             race.writer)
    /\ StoreUnchanged
    /\ RestUnchanged

\* createUsersTable: CREATE TABLE fails when the other process has created
\* the table in the meantime; the error ends autoSeedOnStartup in its catch
\* block
RaceCreateTable(p) ==
    /\ Pc(p) = "create"
    /\ LET exists == UsersTablePresent
           executed == createUsersTableStatement[dbType]
       IN  /\ Moves(p, [race.procs[p] EXCEPT
                           !.pc = IF exists THEN autoSeedReturns(TRUE) ELSE "begin",
                           !.caught = exists],
                    race.writer)
           /\ tables' = IF exists
                        THEN tables
                        ELSE tables \cup {StoredIdent(CreatedTable(executed))}
    /\ UNCHANGED <<USERS, nextId, nextSalt>>
    /\ RestUnchanged

\* autoSeedOnStartup: SELECT COUNT(*) and the comparison with 0; the rows
\* another transaction has not committed are not counted
RaceCount(p) ==
    /\ Pc(p) = "count"
    /\ Moves(p, [race.procs[p] EXCEPT
                    !.pc = IF IsNumberZero(CountResult(Cardinality(USERS)))
                           THEN "begin" ELSE autoSeedReturns(FALSE)],
             race.writer)
    /\ StoreUnchanged
    /\ RestUnchanged

\* seedInitialUsers: await db.beginTransaction()
RaceBegin(p) ==
    /\ Pc(p) = "begin"
    /\ Moves(p, [race.procs[p] EXCEPT !.pc = "row", !.i = 1], race.writer)
    /\ StoreUnchanged
    /\ RestUnchanged

\* seedInitialUsers: bcrypt.hash and the INSERT ... ON CONFLICT of one
\* roster account, and the catch block of the loop
RaceRow(p) ==
    /\ Pc(p) = "row"
    /\ race.writer \notin {0, p} => dbType = "sqlite"
    /\ LET me     == race.procs[p]
           busy   == race.writer \notin {0, p}
           rows   == IF race.writer = p THEN me.view ELSE USERS
           st     == [beginTransaction(Session(rows, nextId, nextSalt))
                         EXCEPT !.aborted = me.aborted]
           after  == Upsert(st, serverTestUsers[me.i], now, busy)
           failed == busy \/ after.aborted \/ after.rows = st.rows
           next   == IF me.i = Len(serverTestUsers) THEN "commit" ELSE "row"
       IN  /\ Moves(p, [me EXCEPT !.pc = next,
                                  !.i = IF next = "row" THEN @ + 1 ELSE @,
                                  !.view = IF busy THEN @ ELSE after.rows,
                                  !.aborted = after.aborted,
                                  !.wrote = IF failed THEN @ ELSE @ + 1],
                    IF busy THEN race.writer ELSE p)
           /\ nextId' = after.nextId
           /\ nextSalt' = after.nextSalt
    /\ UNCHANGED <<tables, USERS>>
    /\ RestUnchanged

\* The other process has run a statement inside its open transaction
OtherInTransaction(p) ==
    \E q \in Procs \ {p} :
        \/ Pc(q) = "commit"
        \/ Pc(q) = "row" /\ race.procs[q].i > 1

\* seedInitialUsers: await db.commit(), its catch block with the rollback,
\* and the return of autoSeedOnStartup.  On SQLite the COMMIT may be answered
\* SQLITE_BUSY while the other process has a transaction open on the file.
RaceCommit(p) ==
    /\ Pc(p) = "commit"
    /\ \E busy \in IF dbType = "sqlite" /\ OtherInTransaction(p)
                    THEN BOOLEAN ELSE {FALSE} :
         LET me == race.procs[p]
             st == [beginTransaction(Session(USERS, nextId, nextSalt))
                       EXCEPT !.rows = IF race.writer = p THEN me.view ELSE USERS,
                              !.aborted = me.aborted]
             o  == IF busy
                   THEN catchAndRollback(commitThrows(st, FALSE), FALSE)
                   ELSE [st |-> commit(st), threw |-> FALSE, rolledBack |-> FALSE]
         IN  /\ USERS' = o.st.committed
             /\ nextId' = KeyAfter(o.st)
             /\ Moves(p, [me EXCEPT !.pc = autoSeedReturns(o.threw), !.view = {},
                                    !.aborted = FALSE,
                                    !.caught = o.threw],
                      IF race.writer = p THEN 0 ELSE race.writer)
    /\ UNCHANGED <<tables, nextSalt>>
    /\ RestUnchanged

\* startServer: app.listen
RaceListen(p) ==
    /\ Pc(p) = "seeded"
    /\ Moves(p, [race.procs[p] EXCEPT !.pc = "listening"], race.writer)
    /\ StoreUnchanged
    /\ RestUnchanged

\* One awaited call of process p
RaceStep(p) ==
    \/ RaceConnect(p)
    \/ RaceTableExists(p)
    \/ RaceCreateTable(p)
    \/ RaceCount(p)
    \/ RaceBegin(p)
    \/ RaceRow(p)
    \/ RaceCommit(p)
    \/ RaceListen(p)

----------------------------------------------------------------------------
(* Requests *)

Idle == req.kind = "none"
InFlight == req.pc # "done"

\* Identifiers and passwords a client may present
LoginNames ==
    {testUsers[i].username : i \in 1..Len(testUsers)}
    \cup {serverTestUsers[i].email : i \in 1..Len(serverTestUsers)}
    \cup {"nobody", "", NoValue}

LoginPasswords ==
    {testUsers[i].password : i \in 1..Len(testUsers)} \cup {"wrong", "", NoValue}

\* The credentials of the accounts the server seeds
SeededNames == {serverTestUsers[i].username : i \in 1..Len(serverTestUsers)}
SeededPasswords == {serverTestUsers[i].password : i \in 1..Len(serverTestUsers)}

\* A token of the service whose role member was rewritten by the client
Tampered(token) == [token EXCEPT !.payload["role"] = "admin"]

\* A token the client signed itself
ForgedToken(t) ==
    jwtSign([id |-> 1, username |-> "admin", role |-> "admin",
             email |-> "admin@example.com"], "not-the-secret", JWT_EXPIRY, t)

ClientTokens ==
    issued \cup {Tampered(t) : t \in issued} \cup {GarbageToken, ForgedToken(now)}

Headers == {NoHeader, BearerOnly} \cup {Bearer(t) : t \in ClientTokens}

\* POST /api/auth/login arrives with an identifier and a password of the
\* given sets: validation and lookup
LoginArrives(names, passwords) ==
    /\ phase = "listening"
    /\ Idle
    /\ Cardinality(issued) < MaxTokens
    /\ \E username \in names, password \in passwords, throws \in BOOLEAN :
        /\ ~UsersTablePresent => throws
        /\ LET users == loginSelect(USERS, username)
           IN  \E first \in (IF users = {} THEN {EmptyObj} ELSE users) :
                 LET o == loginLookup(username, password, throws, users, first)
                 IN  /\ req' = [NoReq EXCEPT !.kind = "login",
                                             !.route = "/api/auth/login",
                                             !.username = username,
                                             !.password = password,
                                             !.hasUser = o.hasUser,
                                             !.user = o.user,
                                             !.at = now,
                                             !.pc = o.pc,
                                             !.queried = o.queried,
                                             !.dbError = o.queried /\ throws]
                     /\ res' = o.sent
    /\ handlerRan' = TRUE
    /\ UNCHANGED <<dbType, phase, tables, USERS, nextId, nextSalt, now, issued,
                   freshSeed, adminOps>>
    /\ UNCHANGED procVars

LoginRequest == LoginArrives(LoginNames, LoginPasswords)

SeededLoginRequest == LoginArrives(SeededNames, SeededPasswords)

\* The login the server suggests when it starts listening
SuggestedLoginRequest == LoginArrives({"admin"}, {"admin123"})

\* POST /api/auth/login resumes after the lookup: password check and token.
\* bcrypt.compare rejects when it is given a password that is no string;
\* the rejection lands in the catch block of the handler.
LoginCompareStep(faults) ==
    /\ req.kind = "login"
    /\ req.pc = "compare"
    /\ \E throws \in faults :
         LET o == IF throws THEN loginCatch
                  ELSE loginVerify(req.password, req.user, now)
         IN  /\ res' = res \o o.sent
             /\ issued' = issued \cup o.tokens
             /\ req' = [req EXCEPT !.pc = "done", !.compared = TRUE,
                                   !.dbError = @ \/ throws]
    /\ UNCHANGED <<dbType, phase, tables, USERS, nextId, nextSalt, now,
                   handlerRan, freshSeed, adminOps>>
    /\ UNCHANGED procVars

\* The password comparison of a request whose password is a string
LoginCompare == LoginCompareStep({FALSE})

\* The password comparison of a request with any JSON value as password
LoginCompareFaulty == LoginCompareStep(BOOLEAN)

\* A GET to a protected route arrives: the gate, and the handler up to its
\* first await
GetRequest ==
    /\ phase = "listening"
    /\ Idle
    /\ \E route \in Routes, header \in Headers :
         LET g == RunGate(route, header, now)
         IN  /\ req' = [NoReq EXCEPT !.kind = "get",
                                     !.route = route,
                                     !.header = header,
                                     !.hasUser = g.hasUser,
                                     !.user = g.user,
                                     !.at = now,
                                     !.pc = IF g.proceed /\ IsAsyncHandler(route)
                                            THEN "query" ELSE "done"]
             /\ res' = IF g.proceed /\ ~IsAsyncHandler(route)
                       THEN Append(g.sent, echoHandler(route, g.user, now))
                       ELSE g.sent
             /\ handlerRan' = g.proceed
    /\ UNCHANGED <<dbType, phase, tables, USERS, nextId, nextSalt, now, issued,
                   freshSeed, adminOps>>
    /\ UNCHANGED procVars

\* GET /api/users or GET /api/me resumes: the SELECT and the response
HandlerQuery ==
    /\ req.kind = "get"
    /\ req.pc = "query"
    /\ \E throws \in BOOLEAN :
        /\ ~UsersTablePresent => throws
        /\ res' = Append(res, IF req.route = "/api/users"
                              THEN usersHandler(USERS, throws)
                              ELSE meHandler(req.user, USERS, throws))
        /\ req' = [req EXCEPT !.pc = "done", !.queried = TRUE, !.dbError = throws]
    /\ UNCHANGED <<dbType, phase, tables, USERS, nextId, nextSalt, now, issued,
                   handlerRan, freshSeed, adminOps>>
    /\ UNCHANGED procVars

\* The response has been written and the request is over
EndRequest ==
    /\ ~Idle
    /\ req.pc = "done"
    /\ req' = NoReq
    /\ res' = << >>
    /\ handlerRan' = FALSE
    /\ UNCHANGED <<dbType, phase, tables, USERS, nextId, nextSalt, now, issued,
                   freshSeed, adminOps>>
    /\ UNCHANGED procVars

----------------------------------------------------------------------------
(* Environment: the clock and the administrator act while the service is *)
(* idle or while a handler is suspended at an await.                      *)

EnvMayAct == Idle \/ InFlight

\* Time passes
Tick ==
    /\ phase = "listening"
    /\ EnvMayAct
    /\ now + TickDays <= MaxTime
    /\ now' = now + TickDays
    /\ UNCHANGED <<dbType, phase, tables, USERS, nextId, nextSalt, issued,
                   req, res, handlerRan, freshSeed, adminOps>>
    /\ UNCHANGED procVars

\* An administrator sets USERS.isActive of one row, outside the service
AdminSetActive ==
    /\ EnvMayAct
    /\ adminOps < MaxAdminOps
    /\ \E r \in USERS, b \in BOOLEAN :
        /\ r["isActive"] # b
        /\ USERS' = (USERS \ {r}) \cup {[r EXCEPT !["isActive"] = b]}
    /\ adminOps' = adminOps + 1
    /\ UNCHANGED <<dbType, phase, tables, nextId, nextSalt, now, issued,
                   req, res, handlerRan, freshSeed>>
    /\ UNCHANGED procVars

\* An administrator sets USERS.role of one row, outside the service
AdminSetRole ==
    /\ EnvMayAct
    /\ adminOps < MaxAdminOps
    /\ \E r \in USERS, role \in Roles :
        /\ r["role"] # role
        /\ USERS' = (USERS \ {r}) \cup {[r EXCEPT !["role"] = role]}
    /\ adminOps' = adminOps + 1
    /\ UNCHANGED <<dbType, phase, tables, nextId, nextSalt, now, issued,
                   req, res, handlerRan, freshSeed>>
    /\ UNCHANGED procVars

----------------------------------------------------------------------------
(* Specifications *)

\* The whole service: startup, logins of the seeded accounts, the protected
\* routes, the clock and the administrator
Next ==
    \/ Connect
    \/ autoSeedOnStartup
    \/ seedInitialUsersCall
    \/ Listen
    \/ SeededLoginRequest
    \/ LoginCompare
    \/ GetRequest
    \/ HandlerQuery
    \/ EndRequest
    \/ Tick
    \/ AdminSetActive
    \/ AdminSetRole

Spec == Init /\ [][Next]_vars

\* The login endpoint under every kind of credentials
NextLogin ==
    \/ Connect
    \/ autoSeedOnStartup
    \/ seedInitialUsersCall
    \/ Listen
    \/ LoginRequest
    \/ LoginCompare
    \/ EndRequest
    \/ AdminSetActive

SpecLogin == Init /\ [][NextLogin]_vars

\* Every handler under every kind of credentials, failing storage calls and
\* failing comparisons, and the administrator
NextHandlers ==
    \/ Connect
    \/ autoSeedOnStartup
    \/ seedInitialUsersCall
    \/ Listen
    \/ LoginRequest
    \/ LoginCompareFaulty
    \/ GetRequest
    \/ HandlerQuery
    \/ EndRequest
    \/ AdminSetActive

SpecHandlers == Init /\ [][NextHandlers]_vars

\* Startup under backend failures, restarts, the seeding script and the
\* administrator
NextSeed ==
    \/ Connect
    \/ autoSeedOnStartupFaulty
    \/ seedInitialUsersFaulty
    \/ Listen
    \/ Restart
    \/ seedUsersCall
    \/ seedUsersWrite
    \/ SuggestedLoginRequest
    \/ LoginCompare
    \/ EndRequest
    \/ AdminSetActive

SpecSeed == Init /\ [][NextSeed]_vars

\* Startup under backend failures, and restarts.  startServer awaits each
\* of its steps in turn, so a step that can be taken is taken.
NextStartup ==
    \/ Connect
    \/ autoSeedOnStartupFaulty
    \/ seedInitialUsersFaulty
    \/ Listen
    \/ Restart

SpecStartup ==
    /\ Init
    /\ [][NextStartup]_vars
    /\ WF_vars(autoSeedOnStartupFaulty)
    /\ WF_vars(seedInitialUsersFaulty)
    /\ WF_vars(Listen)

\* Startup and the seeding script under backend failures, and restarts
NextTx ==
    \/ Connect
    \/ autoSeedOnStartupFaulty
    \/ seedInitialUsersFaulty
    \/ Listen
    \/ Restart
    \/ seedUsersCall
    \/ seedUsersWriteFaulty

SpecTx == Init /\ [][NextTx]_vars

\* Two server processes start against one store
InitRace ==
    /\ dbType \in {"postgres", "sqlite"}
    /\ phase = "race"
    /\ tables \in {{}, {StoredIdent("USERS")}}
    /\ USERS = {}
    /\ nextId = 1
    /\ nextSalt = 1
    /\ now = 0
    /\ issued = {}
    /\ req = NoReq
    /\ res = << >>
    /\ handlerRan = FALSE
    /\ freshSeed = FALSE
    /\ adminOps = 0
    /\ exitCode = -1
    /\ autoSeed = NoAutoSeed
    /\ seedRun = NoSeedRun
    /\ ddl = NoDdl
    /\ restarts = 0
    /\ dbUp = TRUE
    /\ handle = NoHandle
    /\ race = [procs |-> [p \in Procs |-> NewProc], writer |-> 0]

NextRace ==
    \/ \E p \in Procs : RaceConnect(p)
    \/ \E p \in Procs : RaceTableExists(p)
    \/ \E p \in Procs : RaceCreateTable(p)
    \/ \E p \in Procs : RaceCount(p)
    \/ \E p \in Procs : RaceBegin(p)
    \/ \E p \in Procs : RaceRow(p)
    \/ \E p \in Procs : RaceCommit(p)
    \/ \E p \in Procs : RaceListen(p)

\* Each process awaits its calls in turn, so a process that can take a step
\* takes one
SpecRace ==
    /\ InitRace
    /\ [][NextRace]_vars
    /\ \A p \in Procs : WF_vars(RaceStep(p))

\* Startup and shutdown signals
NextClose ==
    \/ Connect
    \/ autoSeedOnStartupFaulty
    \/ seedInitialUsersFaulty
    \/ Listen
    \/ Restart
    \/ Signal
    \/ SignalExit

SpecClose == Init /\ [][NextClose]_vars

\* createTable called with one statement on a connected database
InitDDL ==
    /\ dbType \in {"postgres", "sqlite"}
    /\ phase = "ddl"
    /\ tables = {}
    /\ USERS = {}
    /\ nextId = 1
    /\ nextSalt = 1
    /\ now = 0
    /\ issued = {}
    /\ req = NoReq
    /\ res = << >>
    /\ handlerRan = FALSE
    /\ freshSeed = FALSE
    /\ adminOps = 0
    /\ exitCode = -1
    /\ autoSeed = NoAutoSeed
    /\ seedRun = NoSeedRun
    /\ ddl \in {[sql |-> s, executed |-> << >>] : s \in Statements}
    /\ restarts = 0
    /\ dbUp = TRUE
    /\ handle = NoHandle
    /\ race = NoRace

\* Database.createTable(sql): the translation and execute
createTableCall ==
    /\ phase = "ddl"
    /\ phase' = "ddlDone"
    /\ LET executed == createTable(ddl.sql)
       IN  /\ ddl' = [ddl EXCEPT !.executed = executed]
           /\ tables' = IF CreatedTable(executed) # ""
                        THEN tables \cup {StoredIdent(CreatedTable(executed))}
                        ELSE tables
    /\ UNCHANGED <<dbType, USERS, nextId, nextSalt, now, issued, req, res,
                   handlerRan, freshSeed, adminOps, exitCode, autoSeed, seedRun,
                   restarts, dbUp, handle, race>>

NextDDL == createTableCall

SpecDDL == InitDDL /\ [][NextDDL]_vars

----------------------------------------------------------------------------
(* Properties of the access gate *)

GetDone == req.kind = "get"
ReqHasToken == req.header.present /\ Len(req.header.parts) >= 1
ReqToken == req.header.parts[1]

\* The request carries a token the service issued, presented before its expiry
ReqTokenValid ==
    /\ ReqHasToken
    /\ ReqToken \in issued
    /\ req.at < ReqToken.payload["exp"]

\* Exactly one response was sent, it has the given status, and the handler
\* was not entered
RejectedWith(status) ==
    /\ ~handlerRan
    /\ req.pc = "done"
    /\ Len(res) = 1
    /\ res[1].status = status

\* The handler was entered and the gate sent nothing
Proceeded ==
    /\ handlerRan
    /\ Len(res) <= 1
    /\ \A i \in 1..Len(res) : res[i].status \notin {401, 403}

RoleInRouteSet ==
    \/ ~HasRoleGuard(req.route)
    \/ InRoles(RequiredRoles(req.route), ReqToken.payload["role"])

\* C1: a request to a protected endpoint ends in exactly one of: 401 when
\* the header carries no token, 403 when the token fails verification, 403
\* when the token is valid and its role is not in the route's set, the
\* handler when it is; the gate never both rejects and proceeds.
C1_GateOutcomes ==
    GetDone =>
        /\ ~ReqHasToken => RejectedWith(401)
        /\ (ReqHasToken /\ ~ReqTokenValid) => RejectedWith(403)
        /\ (ReqTokenValid /\ ~RoleInRouteSet) => RejectedWith(403)
        /\ (ReqTokenValid /\ RoleInRouteSet) => Proceeded

C1_Witness ==
    /\ GetDone
    /\ ReqTokenValid
    /\ HasRoleGuard(req.route)
    /\ ~RoleInRouteSet
    /\ RejectedWith(403)

\* The required set of each protected route, as the claim lists them
C2_Allows(route, role) ==
    CASE route = "/api/users" -> role = "admin"
      [] route = "/api/admin/test-jwt" -> role = "admin"
      [] route = "/api/driver/test-jwt" -> role \in {"driver", "admin"}
      [] route = "/api/me" -> TRUE
      [] OTHER -> FALSE

\* C2: a request with a valid token of role r reaches the handler of a route
\* if and only if r is in that route's required set ({admin} for /api/users
\* and /api/admin/test-jwt, {driver, admin} for /api/driver/test-jwt, any
\* role for /api/me), and is otherwise answered 403.
C2_RoleMatrix ==
    (GetDone /\ ReqTokenValid) =>
        /\ handlerRan <=> C2_Allows(req.route, ReqToken.payload["role"])
        /\ ~handlerRan => (Len(res) = 1 /\ res[1].status = 403)

C2_Witness ==
    /\ GetDone
    /\ ReqTokenValid
    /\ ReqToken.payload["role"] = "driver"
    /\ req.route = "/api/admin/test-jwt"
    /\ ~handlerRan
    /\ res[1].status = 403

\* C3: a token made by generateToken is accepted by authenticateToken, with
\* its claims as req.user, at every time before its expiry, and is answered
\* 403 without reaching a handler at every time after its expiry.
C3_ExpiryDecides ==
    (GetDone /\ ReqHasToken /\ ReqToken \in issued) =>
        /\ req.at < ReqToken.payload["exp"] =>
              (req.hasUser /\ req.user = ReqToken.payload)
        /\ req.at > ReqToken.payload["exp"] =>
              (/\ ~handlerRan
               /\ ~req.hasUser
               /\ res = <<Response(403, [error |-> "Invalid or expired token"])>>)

C3_Witness ==
    /\ GetDone
    /\ ReqHasToken
    /\ ReqToken \in issued
    /\ req.at > ReqToken.payload["exp"]
    /\ res = <<Response(403, [error |-> "Invalid or expired token"])>>

\* The stored record of the token's subject no longer matches the token
StaleToken(token) ==
    \E r \in USERS :
        /\ r["id"] = token.payload["id"]
        /\ (r["role"] # token.payload["role"] \/ r["isActive"] = FALSE)

\* C10: a token issued before its user's stored role was changed, or before
\* the user was deactivated, and not yet expired is still authenticated and
\* is authorized by the role it was issued with, not by the stored one.
C10_TrustOnIssue ==
    (GetDone /\ ReqTokenValid /\ StaleToken(ReqToken)) =>
        /\ req.hasUser
        /\ req.user["role"] = ReqToken.payload["role"]
        /\ handlerRan <=> RoleInRouteSet

C10_Witness ==
    /\ GetDone
    /\ ReqTokenValid
    /\ \E r \in USERS :
        /\ r["id"] = ReqToken.payload["id"]
        /\ r["role"] # "admin"
        /\ ReqToken.payload["role"] = "admin"
    /\ req.route = "/api/users"
    /\ handlerRan
----------------------------------------------------------------------------
(* Properties of the login endpoint *)

LoginDone == req.kind = "login" /\ req.pc = "done"

\* The stored accounts the presented identifier matches
MatchedAccounts ==
    {r \in USERS : r["username"] = req.username \/ r["email"] = req.username}

\* C4: after a fresh seed by server startup, a login of each of the five
\* roster accounts (admin, driver1, customer1, dispatcher1, support1) with
\* its plaintext password is answered 200 with a token whose role is the
\* account's seeded role.
C4_RosterLoginSucceeds ==
    (freshSeed /\ adminOps = 0 /\ LoginDone /\ ~req.dbError) =>
        \A i \in 1..Len(testUsers) :
            (req.username = testUsers[i].username
             /\ req.password = testUsers[i].password) =>
                /\ Len(res) = 1
                /\ res[1].status = 200
                /\ res[1].body.token.payload["role"] = testUsers[i].role

\* What the handler answers when the identifier matches no account
NoAccountResponse ==
    loginLookup(req.username, req.password, FALSE, {}, EmptyObj).sent

\* The request names an existing account and presents a password that is
\* not that account's
WrongPasswordLogin ==
    /\ LoginDone
    /\ ~req.dbError
    /\ req.username \notin {"", NoValue}
    /\ req.password \notin {"", NoValue}
    /\ MatchedAccounts # {}
    /\ \A r \in MatchedAccounts : ~bcryptCompare(req.password, r["password_hash"])

C6_DeactivatedLoginFails ==
    [][\A r \in USERS :
          (/\ r["isActive"] = FALSE
           /\ Idle
           /\ req'.kind = "login"
           /\ req'.username \in {r["username"], r["email"]})
          => /\ req'.pc = "done"
             /\ issued' = issued
             /\ Len(res') = 1
             /\ res'[1].status # 200
             /\ "token" \notin DOMAIN res'[1].body
             /\ (req'.password \notin {"", NoValue} /\ ~req'.dbError)
                   => res'[1].status = 401]_vars

C6_Witness ==
    /\ LoginDone
    /\ dbType = "sqlite"
    /\ ~req.dbError
    /\ \E r \in USERS :
        /\ r["isActive"] = FALSE
        /\ req.username = r["username"]
        /\ bcryptCompare(req.password, r["password_hash"])
    /\ res = <<Response(401, [error |-> "Account is deactivated"])>>

\* C7: a login request whose username or password is absent or empty is
\* answered 400 before any lookup or password comparison, with no token.
C7_MissingFieldIs400 ==
    (req.kind = "login"
     /\ (req.username \in {"", NoValue} \/ req.password \in {"", NoValue})) =>
        /\ req.pc = "done"
        /\ Len(res) = 1
        /\ res[1].status = 400
        /\ "token" \notin DOMAIN res[1].body
        /\ ~req.queried
        /\ ~req.compared

C7_Witness ==
    /\ req.kind = "login"
    /\ req.username = "admin"
    /\ req.password = ""
    /\ MatchedAccounts # {}
    /\ res[1].status = 400
    /\ ~req.queried

\* C8: for every active account, a login with the account's email as the
\* identifier and the right password is answered 200 with that account's
\* id, username and role, as a login with its username is.
C8_EmailLoginSucceeds ==
    (LoginDone /\ ~req.dbError) =>
        \A r \in USERS :
            (/\ r["isActive"] = TRUE
             /\ req.username = r["email"]
             /\ bcryptCompare(req.password, r["password_hash"])) =>
                /\ Len(res) = 1
                /\ res[1].status = 200
                /\ res[1].body.user["id"] = r["id"]
                /\ res[1].body.user["username"] = r["username"]
                /\ res[1].body.user["role"] = r["role"]

----------------------------------------------------------------------------
(* Password hashes stay inside the store *)

StoredHashes == {r["password_hash"] : r \in USERS}

\* The members of the objects the service sends that hold strings
StringMembers == {"username", "role", "email", "firstName", "lastName",
                  "firstname", "lastname", "password_hash"}

\* An object has a password_hash member or a string member holding a hash
ObjectLeaksHash(obj) ==
    \E k \in DOMAIN obj :
        \/ k = "password_hash"
        \/ (k \in StringMembers /\ obj[k] \in StoredHashes)

BodyLeaksHash(body) ==
    \/ "password_hash" \in DOMAIN body
    \/ ("error" \in DOMAIN body /\ body.error \in StoredHashes)
    \/ ("message" \in DOMAIN body /\ body.message \in StoredHashes)
    \/ ("user" \in DOMAIN body /\ ObjectLeaksHash(body.user))
    \/ ("users" \in DOMAIN body
        /\ \E i \in 1..Len(body.users) : ObjectLeaksHash(body.users[i]))
    \/ ("token" \in DOMAIN body /\ ObjectLeaksHash(body.token.payload))

\* C9: no response of any endpoint and no payload of an issued token
\* contains a stored password hash.
C9_NoHashLeaves ==
    /\ \A i \in 1..Len(res) : ~BodyLeaksHash(res[i].body)
    /\ \A t \in issued : ~ObjectLeaksHash(t.payload)

C9_Witness ==
    /\ LoginDone
    /\ Len(res) = 1
    /\ res[1].status = 200
    /\ res[1].body.token \in issued
    /\ \E r \in USERS : r["id"] = res[1].body.user["id"]
                        /\ r["password_hash"] \in StoredHashes

----------------------------------------------------------------------------
(* Properties of startup seeding and of the seeding script *)

\* Every account of the roster is a row of USERS
RosterStored(roster) ==
    \A i \in 1..Len(roster) :
        \E r \in USERS : /\ r["username"] = roster[i].username
                         /\ r["email"] = roster[i].email

\* C11: when autoSeedOnStartup finds the USERS table absent, or present
\* with zero rows, and no call to the backend fails for a reason of the
\* backend, it goes on to seedInitialUsers with the table in place, and
\* every account of its roster is in USERS when it returns.
C11_AutoSeedSeedsRoster ==
    [][/\ (/\ phase = "connected"
           /\ phase' # "connected"
           /\ autoSeed'.fault = "none"
           /\ (~UsersTablePresent \/ USERS = {}))
          => (phase' = "seeding" /\ UsersTablePresent')
       /\ (/\ phase = "seeding"
           /\ phase' # "seeding"
           /\ autoSeed'.fault = "none")
          => RosterStored(serverTestUsers)']_vars

\* C12: when USERS holds at least one row as autoSeedOnStartup begins, the
\* function returns without calling seedInitialUsers and leaves the rows
\* and the tables as they were; so a startup against the store a seeded
\* startup left changes no row.
C12_PopulatedTableUntouched ==
    [][(phase = "connected" /\ phase' # "connected" /\ USERS # {})
       => (phase' = "seeded" /\ USERS' = USERS /\ tables' = tables)]_vars

\* A second startup has gone through autoSeedOnStartup against the rows the
\* first one seeded, without calling seedInitialUsers
C12_Witness ==
    /\ restarts >= 1
    /\ phase = "seeded"
    /\ autoSeed.ran
    /\ autoSeed.fault = "none"
    /\ ~freshSeed
    /\ seedRun.runs = 0
    /\ RosterStored(serverTestUsers)

\* C13: seedUsers(false) called while USERS holds at least one row changes
\* no row and returns false.
C13_NonForcedSeedIsNoOp ==
    [][(seedRun'.runs # seedRun.runs /\ ~seedRun'.force /\ USERS # {})
       => (/\ USERS' = USERS
           /\ seedRun'.pc = "done"
           /\ seedRun'.result = "false")]_vars

\* POST /api/auth/login with these credentials is answered 200 in this state
LoginSucceeds(username, password) ==
    LET users == loginSelect(USERS, username)
    IN  /\ users # {}
        /\ \A first \in users :
             LET o == loginLookup(username, password, FALSE, users, first)
             IN  /\ o.pc = "compare"
                 /\ loginVerify(password, o.user, now).sent[1].status = 200

\* The account is stored, active, under a hash computed with one of the
\* salts drawn from number salt on, and its password logs in
RewrittenSince(user, salt) ==
    /\ \E r \in USERS :
         /\ r["username"] = user.username
         /\ r["email"] = user.email
         /\ r["isActive"] = TRUE
         /\ \E n \in salt..(nextSalt - 1) :
                r["password_hash"] = bcryptHash(user.password, n)
    /\ LoginSucceeds(user.username, user.password)

\* C14: seedUsers(true) called while USERS holds at least one row goes on
\* to its transaction and, when it returns, every account of its roster is
\* stored under its username and email, is active, carries a hash computed
\* during this run, and logs in with the roster password.
C14_ForcedSeedRewritesRoster ==
    [][/\ (seedRun'.runs # seedRun.runs /\ seedRun'.force /\ USERS # {})
          => seedRun'.pc = "write"
       /\ (/\ seedRun.pc = "write"
           /\ seedRun.force
           /\ seedRun.hasRecords
           /\ seedRun'.pc = "done")
          => (/\ seedRun'.result = "true"
              /\ \A i \in 1..Len(seedTestUsers) :
                    \E salt \in {nextSalt} : RewrittenSince(seedTestUsers[i], salt)')]_vars

\* C15: once connect() has succeeded, startServer reaches app.listen
\* whatever error occurs inside autoSeedOnStartup (existence check, table
\* creation, row count, BEGIN, a seed write, COMMIT or ROLLBACK).
C15_SeedErrorsContained == (phase = "connected") ~> (phase = "listening")

\* The server listens although COMMIT and ROLLBACK both failed during
\* seedInitialUsers
C15_Witness ==
    /\ phase = "listening"
    /\ exitCode = -1
    /\ autoSeed.caught
    /\ autoSeed.fault = "rollback"

\* C16: when connect() throws, startServer exits with status 1 at once:
\* autoSeedOnStartup has not run, no table or row has changed, and the
\* process that exited never seeds or listens afterwards.
C16_ConnectFailureAborts ==
    [][/\ (phase = "boot" /\ ~dbUp /\ phase' # "boot")
          => (/\ phase' = "exited"
              /\ exitCode' = 1
              /\ ~autoSeed'.ran
              /\ USERS' = USERS
              /\ tables' = tables)
       /\ (phase = "exited")
          => (phase' \in {"exited", "boot"} /\ autoSeed' \in {autoSeed, NoAutoSeed})]_vars

\* connect() failed against a store that holds no USERS table: the process
\* has exited with status 1 and the store is as it was
C16_Witness ==
    /\ phase = "exited"
    /\ ~dbUp
    /\ exitCode = 1
    /\ ~autoSeed.ran
    /\ ~UsersTablePresent
    /\ seedRun.runs = 0

\* C17: no step of startup seeding, of the seeding script (forced or not),
\* of login or of a protected endpoint removes a user: every username
\* stored before the step is stored after it.
C17_NoRowDeleted ==
    [][\A r \in USERS : \E q \in USERS' : q["username"] = r["username"]]_vars

\* C18: in every reachable state of the store no two rows of USERS share a
\* username and no two rows share an email.
C18_UniqueUsernameEmail ==
    \A r \in USERS : \A q \in USERS :
        (r["username"] = q["username"] \/ r["email"] = q["email"]) => r = q

\* seedInitialUsers has written its accounts over the five rows the seeding
\* script had inserted after the server counted zero rows: the row of admin
\* keeps its key and carries the hash of the sixth salt
C18_Witness ==
    /\ freshSeed
    /\ seedRun.pc = "done"
    /\ ~seedRun.force
    /\ seedRun.result = "true"
    /\ Cardinality(USERS) = Len(seedTestUsers)
    /\ \E r \in USERS : /\ r["username"] = "admin"
                        /\ r["id"] = 1
                        /\ r["password_hash"] = bcryptHash("admin123", 6)

\* C19: tableExists('USERS') answers false while the store holds no USERS
\* table, and once CREATE TABLE USERS has been executed through createTable
\* it answers true.
C19_TableExistsAfterCreate ==
    [][/\ ~UsersTablePresent' => ~tableExists("USERS")'
       /\ (~UsersTablePresent /\ UsersTablePresent') => tableExists("USERS")']_vars

\* The characters that end a token of a statement
Delimiters == {" ", "\n", ",", "(", ")"}

\* The substitutions listed for the embedded backend
ListedSubstitutions ==
    << [pattern |-> <<"SERIAL", " ", "PRIMARY", " ", "KEY">>,
        replacement |-> <<"INTEGER", " ", "PRIMARY", " ", "KEY">>],
       [pattern |-> <<"TIMESTAMP", " ", "WITH", " ", "TIME", " ", "ZONE">>,
        replacement |-> <<"DATETIME">>],
       [pattern |-> <<"BOOLEAN", " ", "DEFAULT", " ", "TRUE">>,
        replacement |-> <<"BOOLEAN", " ", "DEFAULT", " ", "1">>],
       [pattern |-> <<"BOOLEAN", " ", "DEFAULT", " ", "FALSE">>,
        replacement |-> <<"BOOLEAN", " ", "DEFAULT", " ", "0">>],
       [pattern |-> <<"ON", " ", "UPDATE", " ", "CURRENT_", "TIMESTAMP">>,
        replacement |-> << >>] >>

\* n atoms from position i on are whole tokens of the statement
WholeTokens(stmt, i, n) ==
    /\ i = 1 \/ stmt[i - 1] \in Delimiters
    /\ i + n - 1 = Len(stmt) \/ stmt[i + n] \in Delimiters

\* The positions from i on where a listed phrase stands, with its substitution
ListedFrom(stmt, i) ==
    {m \in (i..Len(stmt)) \X (1..Len(ListedSubstitutions)) :
        /\ MatchesAt(stmt, m[1], ListedSubstitutions[m[2]].pattern)
        /\ WholeTokens(stmt, m[1], Len(ListedSubstitutions[m[2]].pattern))}

\* The statement with every listed phrase substituted and every other token
\* left as it is
RECURSIVE ListedTranslationFrom(_, _)
ListedTranslationFrom(stmt, i) ==
    LET found == ListedFrom(stmt, i)
    IN  IF found = {} THEN SubSeq(stmt, i, Len(stmt))
        ELSE LET m == CHOOSE q \in found : \A r \in found : q[1] <= r[1]
                 rule == ListedSubstitutions[m[2]]
             IN  SubSeq(stmt, i, m[1] - 1) \o rule.replacement
                 \o ListedTranslationFrom(stmt, m[1] + Len(rule.pattern))

ListedTranslation(stmt) == ListedTranslationFrom(stmt, 1)

\* C20: the statement createTable executes is, on sqlite, the given statement
\* with every SERIAL PRIMARY KEY turned into INTEGER PRIMARY KEY, every
\* TIMESTAMP WITH TIME ZONE into DATETIME, every BOOLEAN DEFAULT TRUE/FALSE
\* into BOOLEAN DEFAULT 1/0 and every ON UPDATE CURRENT_TIMESTAMP removed, in
\* any letter case, and every other token unchanged; on postgres it is the
\* given statement.
C20_TranslationAsListed ==
    phase = "ddlDone" =>
        ddl.executed = IF dbType = "sqlite" THEN ListedTranslation(ddl.sql)
                       ELSE ddl.sql

----------------------------------------------------------------------------
(* Properties of failure handling, transactions and startup order *)

\* The fixed message a route answers with when a call inside its handler
\* failed
GenericMessage(route) ==
    CASE route = "/api/users" -> "Failed to fetch users"
      [] route = "/api/me" -> "Failed to fetch user info"
      [] OTHER -> "Internal server error"

\* C22: when a storage call or the password comparison fails inside the
\* handler of login, /api/me or /api/users, the request is answered with
\* exactly one response, of status 500, whose body is only the fixed message
\* of that route, and no token is issued.
C22_HandlerFailureIs500 ==
    [][(req'.dbError /\ req' # req) =>
          /\ res' = <<Response(500, [error |-> GenericMessage(req'.route)])>>
          /\ issued' = issued]_vars

C22_Witness ==
    /\ req.kind = "login"
    /\ req.compared
    /\ req.dbError
    /\ res = <<Response(500, [error |-> "Internal server error"])>>

\* C27: a token comes into being only in the step of a login request that
\* compares the password, and only when both fields were present, the
\* identifier matched a stored record, the record read for the request was
\* active and the presented password verifies against the hash of that
\* record.
C27_TokenOnlyAfterAllChecks ==
    [][issued' # issued =>
          /\ req.kind = "login"
          /\ req.pc = "compare"
          /\ ~Falsy(req.username)
          /\ ~Falsy(req.password)
          /\ req.queried
          /\ req.hasUser
          /\ req.username \in {req.user["username"], req.user["email"]}
          /\ Truthy(req.user, "isActive")
          /\ bcryptCompare(req.password, req.user["password_hash"])
          /\ res' = <<Response(200, loginBody(req.user, CHOOSE t \in issued' \ issued : TRUE))>>]_vars

C27_Witness ==
    /\ req.kind = "login"
    /\ req.compared
    /\ issued # {}
    /\ req.username = "admin@example.com"

\* C26: the table check and the seed writes of a server process begin only
\* after connect has completed, the listener starts only after
\* autoSeedOnStartup has returned, and a request handler acts only once the
\* listener has started, so that no handler is in flight while startup
\* seeding runs.
C26_StartupOrder ==
    [][/\ (phase' # phase /\ phase' \in {"seeding", "seeded"}) =>
              /\ phase \in {"connected", "seeding"}
              /\ dbUp
              /\ req = NoReq
       /\ (phase' # phase /\ phase' = "listening") =>
              /\ phase = "seeded"
              /\ autoSeed.ran
       /\ (req' # req /\ req'.kind # "none") => phase = "listening"]_vars

C26_Witness ==
    /\ phase = "listening"
    /\ autoSeed.ran
    /\ freshSeed
    /\ req.kind = "login"

\* C24: when the write of one roster account fails during seedInitialUsers,
\* the pass still ends with a commit and every other roster account, whose
\* own write did not fail, is stored afterwards.
C24_BadRowDoesNotAbortSeed ==
    [][(/\ phase = "seeding"
        /\ phase' # phase
        /\ autoSeed'.fault \in {"row1", "row2", "row3"}) =>
          /\ ~autoSeed'.caught
          /\ \A i \in 1..Len(serverTestUsers) :
                i # FailAt(autoSeed'.fault) =>
                    \E r \in USERS' : r["username"] = serverTestUsers[i].username]_vars

\* C21: no call of close raises an error, whether no connection was ever
\* opened or close was called before, on postgres and on sqlite.
C21_CloseIdempotent == ~handle.threw

\* A pass of seedInitialUsers has just ended
ServerPassEnds == phase = "seeding" /\ phase' # phase

\* The transaction of seedUsers has just ended
ScriptPassEnds == seedRun.pc = "write" /\ seedRun'.pc = "done"

\* C23: when seedInitialUsers or seedUsers returns or throws, no connection
\* holds a transaction the function opened, and when COMMIT threw, rollback
\* was called before the error went on.
C23_TransactionNeverLeftOpen ==
    [][/\ ServerPassEnds =>
              /\ ~autoSeed'.open
              /\ autoSeed'.fault \in {"commit", "rollback"} =>
                     autoSeed'.caught /\ autoSeed'.rolledBack
       /\ ScriptPassEnds =>
              /\ ~seedRun'.open
              /\ seedRun'.fault \in {"commit", "rollback"} =>
                     seedRun'.result = "threw" /\ seedRun'.rolledBack]_vars

C23_Witness ==
    /\ dbType = "sqlite"
    /\ phase = "seeded"
    /\ autoSeed.fault = "commit"
    /\ autoSeed.rolledBack
    /\ ~autoSeed.open

\* C25 as stated: when the write of a roster account throws during a pass,
\* no account written by the pass is stored afterwards.
C25_RowErrorRollsBackBatch ==
    [][(ServerPassEnds /\ autoSeed'.fault \in {"row1", "row2", "row3"}) =>
          USERS' = USERS]_vars

\* C25, amended: an error thrown by the write of one account is caught in
\* the loop and the pass goes on to COMMIT; when an error reaches the catch
\* block around the loop (BEGIN was executed and COMMIT threw) rollback is
\* called and no write of the pass is stored afterwards.
C25_CommitErrorRollsBackBatch ==
    [][/\ (ServerPassEnds /\ autoSeed'.caught) =>
              /\ USERS' = USERS
              /\ autoSeed'.fault # "begin" => autoSeed'.rolledBack
       /\ (ServerPassEnds /\ autoSeed'.fault \in {"row1", "row2", "row3"}) =>
              ~autoSeed'.caught /\ ~autoSeed'.rolledBack
       /\ (ScriptPassEnds /\ seedRun'.result = "threw") =>
              /\ USERS' = USERS
              /\ seedRun'.fault # "begin" => seedRun'.rolledBack]_vars

C25_Witness ==
    /\ dbType = "sqlite"
    /\ seedRun.pc = "done"
    /\ seedRun.fault = "commit"
    /\ seedRun.result = "threw"
    /\ seedRun.rolledBack

\* C28: on postgres every statement of a pass of seedInitialUsers, from
\* BEGIN to COMMIT or ROLLBACK, runs on one connection, no write of the pass
\* is committed outside the transaction and no connection keeps the
\* transaction open.
C28_OneConnectionPerPass ==
    [][(ServerPassEnds /\ dbType = "postgres") =>
          /\ Cardinality(autoSeed'.used) <= 1
          /\ ~autoSeed'.outside
          /\ ~autoSeed'.open]_vars

\* C29: when seedUsers(true) throws, every row the table held before the
\* run is in the table afterwards.
C29_FailedForcedSeedRestores ==
    [][(/\ seedRun' # seedRun
        /\ seedRun'.pc = "done"
        /\ seedRun'.force
        /\ seedRun'.result = "threw") =>
          seedRun'.before \subseteq USERS']_vars

\* C30: while two server processes run autoSeedOnStartup against one store,
\* in whatever order their calls are served, no two rows of USERS have the
\* same username or the same email, and both processes come to start their
\* listener.
C30_ConcurrentSeedKeepsRosterUnique ==
    /\ [](\A r1, r2 \in USERS :
            (r1["username"] = r2["username"] \/ r1["email"] = r2["email"]) => r1 = r2)
    /\ <>[](\A p \in Procs : race.procs[p].pc = "listening")

C30_Witness ==
    /\ dbType = "sqlite"
    /\ \A p \in Procs : race.procs[p].pc = "listening" /\ race.procs[p].wrote > 0
    /\ Cardinality(USERS) = Len(serverTestUsers)
====
